---- MODULE Spec2Model ----
(***************************************************************************)
(* JCB Parts Finder: the application state of App (catalog, search index,  *)
(* search results, quotation, discount, upload status), the file parser    *)
(* (parsePartsFile, parseExcel, parseCsvTsv) and the quotation totals of   *)
(* QuotationSidebar.                                                       *)
(*                                                                         *)
(* Text is a sequence of one-character strings, so that toLowerCase, trim, *)
(* split and parseFloat are computed character by character.  Numbers that *)
(* parseFloat yields are kept exactly, as a count of hundredths (a record   *)
(* [nan, v]); binary floating-point rounding is not represented.           *)
(*                                                                         *)
(* A collection of parts (the catalog, the index, the search results) is a *)
(* sequence of runs [part, n]: n consecutive equal records.  A file with n *)
(* equal rows is one run of length n, which is how a file with more rows   *)
(* than MAX_PARTS_LIMIT is represented.                                    *)
(*                                                                         *)
(* The presentation-only flags isUploadModalOpen and isQuotationOpen and   *)
(* the DOM file input's value are not part of the model.                   *)
(***************************************************************************)
EXTENDS Integers, Sequences, FiniteSets, TLC

(***************************************************************************)
(* Text                                                                    *)
(***************************************************************************)
Uppers == <<"A","B","C","D","E","F","G","H","I","J","K","L","M",
            "N","O","P","Q","R","S","T","U","V","W","X","Y","Z">>
Lowers == <<"a","b","c","d","e","f","g","h","i","j","k","l","m",
            "n","o","p","q","r","s","t","u","v","w","x","y","z">>
Digits == <<"0","1","2","3","4","5","6","7","8","9">>
WhiteSpace == {" ", "\t"}

Range(s) == {s[i] : i \in DOMAIN s}

IndexOf(seq, c) == CHOOSE i \in DOMAIN seq : seq[i] = c

LowerOf == [c \in Range(Uppers) |-> Lowers[IndexOf(Uppers, c)]]

\* String.prototype.toLowerCase, one character
LowerChar(c) == IF c \in DOMAIN LowerOf THEN LowerOf[c] ELSE c

toLowerCase(s) == [i \in DOMAIN s |-> LowerChar(s[i])]

\* String.prototype.trim: whitespace dropped at both ends, kept inside
RECURSIVE TrimStart(_)
TrimStart(s) ==
  IF s # <<>> /\ Head(s) \in WhiteSpace THEN TrimStart(Tail(s)) ELSE s

RECURSIVE TrimEnd(_)
TrimEnd(s) ==
  IF s # <<>> /\ s[Len(s)] \in WhiteSpace
    THEN TrimEnd(SubSeq(s, 1, Len(s) - 1))
    ELSE s

trim(s) == TrimEnd(TrimStart(s))

DigitValue == [c \in Range(Digits) |-> IndexOf(Digits, c) - 1]

DigitVal(c) == DigitValue[c]

IsDigit(c) == c \in DOMAIN DigitValue

\* String(n) for a non-negative integer n
RECURSIVE NatToStr(_)
NatToStr(n) ==
  IF n < 10 THEN <<Digits[n + 1]>>
  ELSE NatToStr(n \div 10) \o <<Digits[(n % 10) + 1]>>

\* the longest prefix of s made of digits
RECURSIVE DigitPrefix(_)
DigitPrefix(s) ==
  IF s # <<>> /\ IsDigit(Head(s)) THEN <<Head(s)>> \o DigitPrefix(Tail(s))
  ELSE <<>>

RECURSIVE DigitsVal(_)
DigitsVal(s) ==
  IF s = <<>> THEN 0 ELSE DigitsVal(SubSeq(s, 1, Len(s) - 1)) * 10 + DigitVal(s[Len(s)])

Drop(s, k) == SubSeq(s, k + 1, Len(s))

NaN == [nan |-> TRUE, v |-> 0]

Num(v) == [nan |-> FALSE, v |-> v]

\* the fraction digits f (after the point) as hundredths
FracVal(f) ==
  LET d1 == IF Len(f) >= 1 THEN DigitVal(f[1]) ELSE 0
      d2 == IF Len(f) >= 2 THEN DigitVal(f[2]) ELSE 0
  IN  d1 * 10 + d2

\* parseFloat: leading white space skipped, an optional sign, the longest
\* prefix that is a decimal literal (digits, optionally a point and digits);
\* NaN when that prefix has no digit.  The value is in hundredths.
parseFloat(str) ==
  LET s0   == TrimStart(str)
      neg  == s0 # <<>> /\ Head(s0) = "-"
      s1   == IF s0 # <<>> /\ Head(s0) \in {"-", "+"} THEN Tail(s0) ELSE s0
      ip   == DigitPrefix(s1)
      s2   == Drop(s1, Len(ip))
      fp   == IF s2 # <<>> /\ Head(s2) = "." THEN DigitPrefix(Tail(s2)) ELSE <<>>
      mag  == DigitsVal(ip) * 100 + FracVal(fp)
  IN  IF ip = <<>> /\ fp = <<>> THEN NaN
      ELSE Num(IF neg THEN 0 - mag ELSE mag)

\* parseInt(str, 10): an optional sign and the longest prefix of digits;
\* NaN when there is no digit.  The value is the integer itself.
parseInt(str) ==
  LET s0  == TrimStart(str)
      neg == s0 # <<>> /\ Head(s0) = "-"
      s1  == IF s0 # <<>> /\ Head(s0) \in {"-", "+"} THEN Tail(s0) ELSE s0
      ip  == DigitPrefix(s1)
  IN  IF ip = <<>> THEN NaN
      ELSE Num(IF neg THEN 0 - DigitsVal(ip) ELSE DigitsVal(ip))

Max(a, b) == IF a >= b THEN a ELSE b

Min(a, b) == IF a <= b THEN a ELSE b


(***************************************************************************)
(* fileParser: headers, rows, the two readers and the dispatch             *)
(***************************************************************************)
REQUIRED_HEADERS ==
  <<"itemNo", "itemDescription", "itemGroup", "model",
    "bhlHlnFlag", "hsnTax", "saleRate", "mrp">>

HEADER_MAPPING == <<
  [key |-> <<"i","t","e","m"," ","n","o">>,
   field |-> "itemNo"],
  [key |-> <<"i","t","e","m"," ","n","o",".">>,
   field |-> "itemNo"],
  [key |-> <<"i","t","e","m"," ","d","e","s","c","r","i","p","t","i","o","n">>,
   field |-> "itemDescription"],
  [key |-> <<"d","e","s","c","r","i","p","t","i","o","n">>,
   field |-> "itemDescription"],
  [key |-> <<"i","t","e","m"," ","g","r","o","u","p">>,
   field |-> "itemGroup"],
  [key |-> <<"m","o","d","e","l">>,
   field |-> "model"],
  [key |-> <<"b","h","l","/","h","l","n"," ","f","l","a","g">>,
   field |-> "bhlHlnFlag"],
  [key |-> <<"h","s","n"," ","t","a","x"," ","%">>,
   field |-> "hsnTax"],
  [key |-> <<"h","s","n"," ","t","a","x">>,
   field |-> "hsnTax"],
  [key |-> <<"s","a","l","e"," ","r","a","t","e">>,
   field |-> "saleRate"],
  [key |-> <<"m","r","p">>,
   field |-> "mrp"] >>

\* what HEADER_MAPPING[h] yields for a key it does not hold
Undefined == "undefined"

Null == "null"

HeaderLookup(h) ==
  IF \E i \in DOMAIN HEADER_MAPPING : HEADER_MAPPING[i].key = h
    THEN HEADER_MAPPING[CHOOSE i \in DOMAIN HEADER_MAPPING : HEADER_MAPPING[i].key = h].field
    ELSE Undefined

\* normalizeHeader without trim()
normalizeHeaderUntrimmed(header) == toLowerCase(header)

normalizeHeader(header) == trim(toLowerCase(header))

\* A cell as a reader delivers it: text, a number, or nothing (undefined)
StrCell(s) == [t |-> "str", s |-> s, n |-> 0]

NumCell(n) == [t |-> "num", s |-> <<>>, n |-> n]

UndefCell == [t |-> "undef", s |-> <<>>, n |-> 0]

\* row[index]: undefined beyond the end of the row
CellAt(row, i) == IF i \in DOMAIN row THEN row[i] ELSE UndefCell

\* String(value ?? '')
CellText(c) ==
  CASE c.t = "str"   -> c.s
    [] c.t = "num"   -> NatToStr(c.n)
    [] c.t = "undef" -> <<>>

\* part[partKey] = value
Assign(part, partKey, value) ==
  [f \in DOMAIN part \cup {partKey} |-> IF f = partKey THEN value ELSE part[f]]

EmptyObject == [f \in {} |-> <<>>]

\* headerMap.forEach from column i on
RECURSIVE ProcessCols(_, _, _, _)
ProcessCols(row, headerMap, i, part) ==
  IF i > Len(headerMap) THEN part
  ELSE ProcessCols(row, headerMap, i + 1,
         IF headerMap[i] # Null
           THEN Assign(part, headerMap[i], CellText(CellAt(row, i)))
           ELSE part)

processRow(row, headerMap) == ProcessCols(row, headerMap, 1, EmptyObject)

\* REQUIRED_HEADERS.filter(rh => !foundHeaders.includes(rh))
MissingHeaders(foundHeaders) ==
  SelectSeq(REQUIRED_HEADERS, LAMBDA rh : rh \notin Range(foundHeaders))

\* number of rows of a sequence of runs
RECURSIVE RowCount(_)
RowCount(runs) ==
  IF runs = <<>> THEN 0 ELSE Head(runs).n + RowCount(Tail(runs))

\* json.slice(1): the runs without their first row
SliceOne(runs) ==
  IF runs = <<>> THEN <<>>
  ELSE IF Head(runs).n > 1
    THEN <<[Head(runs) EXCEPT !.n = @ - 1]>> \o Tail(runs)
    ELSE Tail(runs)

Resolve(partsData) ==
  [ok |-> TRUE, data |-> partsData,
   error |-> [kind |-> "", msg |-> "", missing |-> <<>>, count |-> 0, limit |-> 0]]

Reject(kind, msg, missing, count) ==
  [ok |-> FALSE, data |-> <<>>,
   error |-> [kind |-> kind, msg |-> msg, missing |-> missing, count |-> count,
             limit |-> 0]]

\* parseExcel with the columns of the header row validated before the
\* number of rows is
parseExcelColumnsFirst(file) ==
  IF file.io # "ok"
    THEN Reject("MalformedFile", "Failed to parse Excel file.", <<>>, 0)
  ELSE
    LET json           == file.sheet
        headers        == [i \in DOMAIN json[1].row |->
                             normalizeHeader(CellText(json[1].row[i]))]
        headerMap      == [i \in DOMAIN headers |->
                             IF HeaderLookup(headers[i]) # Undefined
                               THEN HeaderLookup(headers[i]) ELSE Null]
        foundHeaders   == SelectSeq(headerMap, LAMBDA h : h # Null)
        missingHeaders == MissingHeaders(foundHeaders)
        rest           == SliceOne(json)
        partsData      == [k \in DOMAIN rest |->
                             [part |-> processRow(rest[k].row, headerMap),
                              n |-> rest[k].n]]
    IN  IF RowCount(json) >= 1 /\ Len(missingHeaders) > 0
          THEN Reject("MissingColumns", "Missing required columns: ",
                      missingHeaders, 0)
        ELSE IF RowCount(json) < 2
          THEN Reject("EmptyOrHeaderOnly",
                      "File is empty or contains only headers.", <<>>, 0)
        ELSE Resolve(partsData)

\* A file is [name, io, sheet, errors]: its name; whether it can be read
\* ("ok"), cannot be read ("unreadable") or does not decode ("corrupt");
\* the rows the reader's library delivers, header row first, as runs
\* [row, n]; and the number of errors a delimited-text reader reports.
parseExcel(file) ==
  IF file.io = "unreadable"
    THEN Reject("MalformedFile", "Could not read the file.", <<>>, 0)
  ELSE IF file.io = "corrupt"
    THEN Reject("MalformedFile", "Failed to parse Excel file.", <<>>, 0)
  ELSE
    LET json           == file.sheet
        headers        == [i \in DOMAIN json[1].row |->
                             normalizeHeader(CellText(json[1].row[i]))]
        headerMap      == [i \in DOMAIN headers |->
                             IF HeaderLookup(headers[i]) # Undefined
                               THEN HeaderLookup(headers[i]) ELSE Null]
        foundHeaders   == SelectSeq(headerMap, LAMBDA h : h # Null)
        missingHeaders == MissingHeaders(foundHeaders)
        rest           == SliceOne(json)
        partsData      == [k \in DOMAIN rest |->
                             [part |-> processRow(rest[k].row, headerMap),
                              n |-> rest[k].n]]
    IN  IF RowCount(json) < 2
          THEN Reject("EmptyOrHeaderOnly",
                      "File is empty or contains only headers.", <<>>, 0)
        ELSE IF Len(missingHeaders) > 0
          THEN Reject("MissingColumns", "Missing required columns: ",
                      missingHeaders, 0)
        ELSE Resolve(partsData)

\* the row object of the delimited-text reader (header: true): the cell of
\* the last column named h, undefined when the row has no such cell
RowField(fields, row, h) ==
  LET cols == {j \in DOMAIN fields : fields[j] = h}
      last == CHOOSE j \in cols : \A k \in cols : k <= j
  IN  IF cols = {} THEN UndefCell ELSE CellAt(row, last)

\* for (const rawHeader of headers) from header i on
RECURSIVE CsvCols(_, _, _, _)
CsvCols(row, headers, i, part) ==
  IF i > Len(headers) THEN part
  ELSE CsvCols(row, headers, i + 1,
         IF HeaderLookup(headers[i]) # Undefined
           THEN Assign(part, HeaderLookup(headers[i]),
                       CellText(RowField(headers, row, headers[i])))
           ELSE part)

parseCsvTsv(file) ==
  IF file.io # "ok"
    THEN Reject("MalformedFile", "Failed to parse file: ", <<>>, 0)
  ELSE
    LET \* transformHeader, applied by the reader to the first row
        fields          == [i \in DOMAIN file.sheet[1].row |->
                              normalizeHeader(CellText(file.sheet[1].row[i]))]
        data            == SliceOne(file.sheet)
        headers         == [i \in DOMAIN fields |-> normalizeHeader(fields[i])]
        headerMapValues == [i \in DOMAIN headers |-> HeaderLookup(headers[i])]
        foundHeaders    == SelectSeq(headerMapValues, LAMBDA h : h # Undefined)
        missingHeaders  == MissingHeaders(foundHeaders)
        partsData       == [k \in DOMAIN data |->
                              [part |-> CsvCols(data[k].row, headers, 1, EmptyObject),
                               n |-> data[k].n]]
    IN  IF file.errors > 0
          THEN Reject("MalformedFile", "CSV parsing error: ", <<>>, 0)
        ELSE IF Len(missingHeaders) > 0
          THEN Reject("MissingColumns", "Missing required columns: ",
                      missingHeaders, 0)
        ELSE Resolve(partsData)

\* the suffix of name after its last "." (the whole name when it has none)
RECURSIVE SplitPop(_)
SplitPop(name) ==
  IF "." \notin Range(name) THEN name
  ELSE SplitPop(Drop(name, IndexOf(name, ".")))

Extension(name) == toLowerCase(SplitPop(name))

parsePartsFile(file) ==
  LET extension == Extension(file.name)
  IN  IF extension = <<"x","l","s","x">> THEN parseExcel(file)
      ELSE IF extension = <<"c","s","v">> \/ extension = <<"t","s","v">>
        THEN parseCsvTsv(file)
      ELSE Reject("UnsupportedFormat",
                  "File format not supported. Please upload CSV, TSV, or Excel.",
                  <<>>, 0)

(***************************************************************************)
(* Input files.  A file is described by [name, io, hasHeader, cols, style, *)
(* body, errors]: cols names what each header column is meant to be (a     *)
(* canonical field, or a column the application does not know), style the *)
(* spelling of the headers, body the data rows as runs [tpl, n, cut] of n  *)
(* rows of template tpl whose last cut cells are absent.                   *)
(***************************************************************************)
UpperOf == [c \in Range(Lowers) |-> Uppers[IndexOf(Lowers, c)]]

UpperChar(c) == IF c \in DOMAIN UpperOf THEN UpperOf[c] ELSE c

KeysOf(field) ==
  SelectSeq(HEADER_MAPPING, LAMBDA e : e.field = field)

\* The header text of a column: style 1 is the first accepted spelling as
\* listed, style 2 the last accepted spelling in capitals with white space
\* around it, style 3 the first spelling capitalised, with a trailing tab.
Spell(col, style) ==
  CASE col = "extra" -> <<"p","r","i","c","e">>
    [] col = "near"  -> <<"i","t","e","m","n","o">>
    [] OTHER ->
       LET first == KeysOf(col)[1].key
           last  == KeysOf(col)[Len(KeysOf(col))].key
       IN  CASE style = 1 -> first
             [] style = 2 ->
                  <<" ">> \o [i \in DOMAIN last |-> UpperChar(last[i])] \o <<" ", " ">>
             [] style = 3 ->
                  <<UpperChar(first[1])>> \o Tail(first) \o <<"\t">>

\* The cell a row template holds for a column
TemplateCell(tpl, col) ==
  CASE col = "itemNo" ->
         StrCell(CASE tpl = 1 -> <<"A","1">> [] tpl = 2 -> <<"B","2">> [] tpl = 3 -> <<"a","1">>)
    [] col = "itemDescription" ->
         StrCell(CASE tpl = 1 -> <<"a","b">> [] tpl = 2 -> <<"a","b","c">> [] tpl = 3 -> <<"a","b">>)
    [] col = "itemGroup"  -> StrCell(<<"g">>)
    [] col = "model"      -> IF tpl = 3 THEN UndefCell ELSE StrCell(<<"3","D","X">>)
    [] col = "bhlHlnFlag" -> StrCell(<<>>)
    [] col = "hsnTax"     -> NumCell(18)
    [] col = "saleRate"   -> IF tpl = 1 THEN NumCell(90) ELSE StrCell(<<"4","5",".","5">>)
    [] col = "mrp" ->
         StrCell(CASE tpl = 1 -> <<"₹","1","0","0",".","0","0">> [] tpl = 2 -> <<"₹","5","0">> [] tpl = 3 -> <<"n","/","a">>)
    [] OTHER -> StrCell(<<"z","z">>)

RowOf(run, cols) ==
  [i \in 1..(Len(cols) - run.cut) |-> TemplateCell(run.tpl, cols[i])]

Sheet(desc) ==
  IF ~desc.hasHeader THEN <<>>
  ELSE <<[row |-> [i \in DOMAIN desc.cols |-> StrCell(Spell(desc.cols[i], desc.style))],
          n |-> 1]>>
       \o [k \in DOMAIN desc.body |->
             [row |-> RowOf(desc.body[k], desc.cols), n |-> desc.body[k].n]]

FileOf(desc) ==
  [name |-> desc.name, io |-> desc.io, sheet |-> Sheet(desc), errors |-> desc.errors]

(***************************************************************************)
(* QuotationSidebar: parseCurrency and the totals                          *)
(***************************************************************************)
\* value.replace(/[^0-9.-]+/g, "")
StripCurrency(value) ==
  SelectSeq(value, LAMBDA c : IsDigit(c) \/ c = "." \/ c = "-")

\* parseCurrency without the replace
parseCurrencyUnstripped(value) ==
  LET number == parseFloat(value)
  IN  IF number.nan THEN 0 ELSE number.v

\* in hundredths
parseCurrency(value) ==
  LET number == parseFloat(StripCurrency(value))
  IN  IF number.nan THEN 0 ELSE number.v

\* parts.reduce((acc, part) => acc + parseCurrency(part.mrp) * part.quantity, 0)
RECURSIVE Subtotal(_)
Subtotal(lines) ==
  IF lines = <<>> THEN 0
  ELSE Subtotal(SubSeq(lines, 1, Len(lines) - 1))
       + parseCurrency(lines[Len(lines)].mrp) * lines[Len(lines)].quantity

\* subtotal is in hundredths and discount in hundredths of a percent, so
\* subtotal * (discount / 100) is subtotal * discount millionths;
\* discountAmount and total are in millionths.
Totals(lines, discount) ==
  LET subtotal       == Subtotal(lines)
      discountAmount == subtotal * discount
      total          == subtotal * 10000 - discountAmount
  IN  [subtotal |-> subtotal, discountAmount |-> discountAmount, total |-> total]

\* DiscountValue without Math.min
DiscountValueNoMin(text) ==
  LET number == parseFloat(text)
      val    == IF number.nan \/ number.v = 0 THEN 0 ELSE number.v
  IN  Max(0, val)

\* Math.max(0, Math.min(100, parseFloat(e.target.value) || 0)), in
\* hundredths of a percent
DiscountValue(text) ==
  LET number == parseFloat(text)
      val    == IF number.nan \/ number.v = 0 THEN 0 ELSE number.v
  IN  Max(0, Min(10000, val))

\* parseInt(e.target.value, 10) || 1
QuantityValue(text) ==
  LET number == parseInt(text)
  IN  IF number.nan \/ number.v = 0 THEN 1 ELSE number.v

(***************************************************************************)
(* App                                                                     *)
(***************************************************************************)
MAX_PARTS_LIMIT == 65000

\* Uploads in flight at once
MaxPending == 2

\* Largest quantity the "+" button is pressed up to
MaxQuantity == 2

VARIABLES
  parts,               \* the catalog: runs [part, n]
  searchResults,       \* [null, items]: null, or runs [part, n]
  searchQuery,
  uploadStatus,
  uploadMessage,
  quotationParts,      \* the quotation lines: parts with a quantity
  discountPercentage,  \* in hundredths of a percent
  fuseRef,             \* [null, items]: the records the index was built over
  effectPending,       \* the index effect of the last catalog change has not run
  pendingUploads,      \* the uploads whose handleFileChange awaits parsePartsFile,
                       \* in the order they were started: [file, overtaken]
  last                 \* the handler that ran last, with its arguments

vars ==
  <<parts, searchResults, searchQuery, uploadStatus, uploadMessage, quotationParts,
    discountPercentage, fuseRef, effectPending, pendingUploads, last>>

NullRef == [null |-> TRUE, items |-> <<>>]

Ref(items) == [null |-> FALSE, items |-> items]

NoError == [kind |-> "", msg |-> "", missing |-> <<>>, count |-> 0, limit |-> 0]

Message(text, count, error) == [text |-> text, count |-> count, error |-> error]

NoFile ==
  [name |-> <<>>, io |-> "ok", hasHeader |-> FALSE, cols |-> <<>>, style |-> 1,
   body |-> <<>>, errors |-> 0]

Last(op, item, n, hit, file) ==
  [op |-> op, item |-> item, n |-> n, hit |-> hit, file |-> file, rows |-> 0,
   late |-> FALSE]

Init ==
  /\ parts = <<>>
  /\ searchResults = NullRef
  /\ searchQuery = <<>>
  /\ uploadStatus = "idle"
  /\ uploadMessage = Message("", 0, NoError)
  /\ quotationParts = <<>>
  /\ discountPercentage = 0
  /\ fuseRef = NullRef
  /\ effectPending = FALSE
  /\ pendingUploads = <<>>
  /\ last = Last("init", <<>>, 0, FALSE, NoFile)

\* The effect of useEffect(..., [parts]) on fuseRef
EffectResult(ref, catalog) == IF Len(catalog) > 0 THEN Ref(catalog) ELSE ref

\* fuseRef once the effect of an earlier catalog change, if still pending,
\* has run: React runs it before it renders the next change
Flushed == IF effectPending THEN EffectResult(fuseRef, parts) ELSE fuseRef

IndexEffect ==
  /\ effectPending
  /\ fuseRef' = EffectResult(fuseRef, parts)
  /\ effectPending' = FALSE
  /\ last' = Last("effect", <<>>, 0, FALSE, NoFile)
  /\ UNCHANGED <<parts, searchResults, searchQuery, uploadStatus, uploadMessage,
                 quotationParts, discountPercentage, pendingUploads>>

\* handleFileChange with no file chosen
handleFileChangeNoFile ==
  /\ last' = Last("nofile", <<>>, 0, FALSE, NoFile)
  /\ UNCHANGED <<parts, searchResults, searchQuery, uploadStatus, uploadMessage,
                 quotationParts, discountPercentage, fuseRef, effectPending,
                 pendingUploads>>

\* handleFileChange clearing the catalog, the quotation and the discount
\* before the await
handleFileChangeClears(file, limit) ==
  /\ Len(pendingUploads) < limit
  /\ uploadStatus' = "loading"
  /\ uploadMessage' = Message("Parsing your file...", 0, NoError)
  /\ searchResults' = NullRef
  /\ searchQuery' = <<>>
  /\ parts' = <<>>
  /\ quotationParts' = <<>>
  /\ discountPercentage' = 0
  /\ pendingUploads' = Append(pendingUploads, [file |-> file, overtaken |-> FALSE])
  /\ last' = Last("upload", <<>>, 0, FALSE, NoFile)
  /\ UNCHANGED <<fuseRef, effectPending>>

\* handleFileChange up to the await; at most limit uploads are in flight
handleFileChange(file, limit) ==
  /\ Len(pendingUploads) < limit
  /\ uploadStatus' = "loading"
  /\ uploadMessage' = Message("Parsing your file...", 0, NoError)
  /\ searchResults' = NullRef
  /\ searchQuery' = <<>>
  /\ pendingUploads' = Append(pendingUploads, [file |-> file, overtaken |-> FALSE])
  /\ last' = Last("upload", <<>>, 0, FALSE, NoFile)
  /\ UNCHANGED <<parts, quotationParts, discountPercentage, fuseRef, effectPending>>

RemoveAt(seq, i) == SubSeq(seq, 1, i - 1) \o SubSeq(seq, i + 1, Len(seq))

\* new Error(`File contains ${parsedData.length} items, exceeding the limit
\* of ${MAX_PARTS_LIMIT}.`)
SizeExceeded(length) ==
  [Reject("SizeExceeded", "File contains items, exceeding the limit of ", <<>>, length)
     EXCEPT !.error.limit = MAX_PARTS_LIMIT]

\* Ingest with >= for > in the size test
IngestAtLeast(file) ==
  LET parsedData == parsePartsFile(FileOf(file))
  IN  IF parsedData.ok /\ RowCount(parsedData.data) >= MAX_PARTS_LIMIT
        THEN SizeExceeded(RowCount(parsedData.data))
        ELSE parsedData

\* What the try block of handleFileChange ends with for a file
Ingest(file) ==
  LET parsedData == parsePartsFile(FileOf(file))
  IN  IF parsedData.ok /\ RowCount(parsedData.data) > MAX_PARTS_LIMIT
        THEN SizeExceeded(RowCount(parsedData.data))
        ELSE parsedData

Reverse(seq) == [i \in DOMAIN seq |-> seq[Len(seq) + 1 - i]]

Row(tpl) == [tpl |-> tpl, n |-> 1, cut |-> 0]

Desc(name, cols, style, body) ==
  [name |-> name, io |-> "ok", hasHeader |-> TRUE, cols |-> cols, style |-> style,
   body |-> body, errors |-> 0]

\* a.xlsx: the catalog A1, B2
FileAB == Desc(<<"a",".","x","l","s","x">>, REQUIRED_HEADERS, 1, <<Row(1), Row(2)>>)

\* b.CSV: the catalog a1, A1, columns in reverse order after an unknown one
FileDup == Desc(<<"b",".","C","S","V">>, <<"extra">> \o Reverse(REQUIRED_HEADERS), 2, <<Row(3), Row(1)>>)

FileTxt == Desc(<<"c",".","t","x","t">>, REQUIRED_HEADERS, 1, <<Row(1)>>)

FileHeaderOnly == Desc(<<"a",".","x","l","s","x">>, REQUIRED_HEADERS, 1, <<>>)

FileNoMrp == Desc(<<"d",".","t","s","v">>, SubSeq(REQUIRED_HEADERS, 1, 7), 3, <<Row(2)>>)

FileCorrupt == [Desc(<<"a",".","x","l","s","x">>, REQUIRED_HEADERS, 1, <<Row(1)>>) EXCEPT !.io = "corrupt"]

FileTooBig ==
  Desc(<<"a",".","x","l","s","x">>, REQUIRED_HEADERS, 1, <<[tpl |-> 2, n |-> MAX_PARTS_LIMIT + 1, cut |-> 0]>>)

AppFiles == {FileAB, FileDup, FileTxt, FileHeaderOnly, FileNoMrp, FileCorrupt, FileTooBig}


\* Header rows that supply the required fields of set S, in the listed order
ColsOf(S) == SelectSeq(REQUIRED_HEADERS, LAMBDA f : f \in S)

\* Header rows that supply every required field: other orders, unknown
\* columns, and a field supplied by two columns
FullCols ==
  {REQUIRED_HEADERS,
   Reverse(REQUIRED_HEADERS),
   <<"extra">> \o Reverse(REQUIRED_HEADERS) \o <<"near">>,
   SubSeq(REQUIRED_HEADERS, 1, 4) \o <<"extra", "extra">> \o SubSeq(REQUIRED_HEADERS, 5, 8),
   <<"mrp", "itemNo">> \o REQUIRED_HEADERS}

Names == {<<"a",".","x","l","s","x">>, <<"b",".","C","S","V">>, <<"d",".","t","s","v">>}

Bodies ==
  {<<>>, <<Row(1)>>, <<Row(3), [tpl |-> 2, n |-> 2, cut |-> 0], Row(1)>>}

\* rows that end before the last columns
ShortBody == <<Row(2), [tpl |-> 1, n |-> 1, cut |-> 3], [tpl |-> 3, n |-> 1, cut |-> 9]>>

\* Names with and without a supported extension, in capitals, with two
\* dots, with none, and ending in one
DispatchNames ==
  {<<"c",".","t","x","t">>, <<"x","l","s","x">>, <<"c","s","v">>, <<"a",".","c","s","v",".","b","a","k">>, <<"e",".","X","l","s","X">>, <<"a",".","x","l","s","x",".","T","S","V">>,
   <<".","x","l","s","x">>, <<"a",".">>, <<>>}

\* The files ingested under SpecIngest: every set of supplied fields, every
\* spelling, the readers' failures, the unsupported names, the sizes at
\* the limit and files over the limit that do not parse.  A delimited-text
\* row shorter than its header comes with a reader error.
IngestFiles ==
  {Desc(name, ColsOf(S), (Cardinality(S) % 3) + 1, body) :
     name \in Names, S \in SUBSET Range(REQUIRED_HEADERS), body \in {<<>>, <<Row(2)>>}}
  \cup {Desc(name, cols, style, body) :
          name \in Names, cols \in FullCols, style \in 1..3, body \in Bodies}
  \cup {Desc(<<"a",".","x","l","s","x">>, cols, 2, ShortBody) : cols \in FullCols}
  \cup {[Desc(name, cols, 1, ShortBody) EXCEPT !.errors = 1] :
          name \in {<<"b",".","C","S","V">>, <<"d",".","t","s","v">>}, cols \in {REQUIRED_HEADERS, ColsOf({"mrp"})}}
  \cup {[Desc(name, REQUIRED_HEADERS, 1, <<Row(1)>>) EXCEPT !.io = io] :
          name \in Names, io \in {"unreadable", "corrupt"}}
  \cup {[Desc(<<"a",".","x","l","s","x">>, <<>>, 1, <<>>) EXCEPT !.hasHeader = FALSE]}
  \cup {Desc(name, REQUIRED_HEADERS, 1, <<Row(1)>>) :
          name \in {<<"c",".","t","x","t">>, <<"x","l","s","x">>, <<"a",".","c","s","v",".","b","a","k">>, <<"e",".","X","l","s","X">>, <<>>}}
  \cup {Desc(name, REQUIRED_HEADERS, 3, <<Row(1), [tpl |-> 2, n |-> n, cut |-> 0]>>) :
          name \in {<<"a",".","x","l","s","x">>, <<"b",".","C","S","V">>},
          n \in {MAX_PARTS_LIMIT - 2, MAX_PARTS_LIMIT - 1, MAX_PARTS_LIMIT}}
  \cup {Desc(<<"d",".","t","s","v">>, SubSeq(REQUIRED_HEADERS, 1, 7), 1,
            <<[tpl |-> 2, n |-> MAX_PARTS_LIMIT + 1, cut |-> 0]>>),
        [Desc(<<"b",".","C","S","V">>, REQUIRED_HEADERS, 1,
              <<[tpl |-> 2, n |-> MAX_PARTS_LIMIT + 1, cut |-> 0]>>) EXCEPT !.errors = 2],
        Desc(<<"c",".","t","x","t">>, REQUIRED_HEADERS, 1,
             <<[tpl |-> 2, n |-> MAX_PARTS_LIMIT + 1, cut |-> 0]>>)}
  \cup {Desc(name, REQUIRED_HEADERS, 1, body) :
          name \in DispatchNames, body \in {<<>>, <<Row(1)>>}}
  \cup {[Desc(name, REQUIRED_HEADERS, 1, <<Row(1)>>) EXCEPT !.io = "corrupt"] :
          name \in DispatchNames}
  \cup AppFiles

\* c.xlsx: the catalog A1, B2, a1
FileAll == Desc(<<"c",".","x","l","s","x">>, REQUIRED_HEADERS, 1, <<Row(1), Row(2), Row(3)>>)

\* Ingest, computed once for every file that is uploaded
IngestTable == [file \in IngestFiles \cup {FileAll} |-> Ingest(file)]

Outcome(file) == IngestTable[file]

\* OnSuccess without setDiscountPercentage(0)
OnSuccessKeepsDiscount(parsedData) ==
  [parts |-> parsedData,
   quotationParts |-> <<>>,
   discountPercentage |-> discountPercentage,
   uploadStatus |-> "success",
   uploadMessage |-> Message("parts uploaded successfully.", RowCount(parsedData), NoError)]

\* OnSuccess with the parsed records added to the catalog
OnSuccessAppends(parsedData) ==
  [parts |-> parts \o parsedData,
   quotationParts |-> <<>>,
   discountPercentage |-> 0,
   uploadStatus |-> "success",
   uploadMessage |-> Message("parts uploaded successfully.", RowCount(parsedData), NoError)]

\* The values the try block sets once parsePartsFile has resolved
OnSuccess(parsedData) ==
  [parts |-> parsedData,
   quotationParts |-> <<>>,
   discountPercentage |-> 0,
   uploadStatus |-> "success",
   uploadMessage |-> Message("parts uploaded successfully.", RowCount(parsedData), NoError)]

\* OnError without setParts([])
OnErrorKeepsParts(error) ==
  [uploadStatus |-> "error",
   uploadMessage |-> Message("error", 0, error),
   parts |-> parts,
   quotationParts |-> <<>>,
   discountPercentage |-> 0]

\* The values the catch block sets
OnError(error) ==
  [uploadStatus |-> "error",
   uploadMessage |-> Message("error", 0, error),
   parts |-> <<>>,
   quotationParts |-> <<>>,
   discountPercentage |-> 0]

\* The uploads in flight once one of them has completed: the first k, which
\* were started before it, have been overtaken
Overtake(pending, k) ==
  [j \in DOMAIN pending |->
     IF j <= k THEN [pending[j] EXCEPT !.overtaken = TRUE] ELSE pending[j]]

\* handleFileChange from the await on, for the i-th upload in flight.  last
\* keeps the file, whether it was accepted, how many lines the quotation and
\* how many records the catalog had, and whether an upload started later
\* had completed before.
handleFileChangeResume(i) ==
  LET file    == pendingUploads[i].file
      outcome == Outcome(file)
      set     == IF outcome.ok THEN OnSuccess(outcome.data) ELSE OnError(outcome.error)
  IN  /\ i \in DOMAIN pendingUploads
      /\ pendingUploads' = Overtake(RemoveAt(pendingUploads, i), i - 1)
      /\ parts' = set.parts
      /\ quotationParts' = set.quotationParts
      /\ discountPercentage' = set.discountPercentage
      /\ uploadStatus' = set.uploadStatus
      /\ uploadMessage' = set.uploadMessage
      /\ fuseRef' = Flushed
      /\ effectPending' = TRUE
      /\ last' = [Last("resume", <<>>, Len(quotationParts), outcome.ok, file)
                     EXCEPT !.rows = RowCount(parts),
                            !.late = pendingUploads[i].overtaken]
      /\ UNCHANGED <<searchResults, searchQuery>>

setSearchQuery(text) ==
  /\ searchQuery' = text
  /\ last' = Last("type", <<>>, 0, FALSE, NoFile)
  /\ UNCHANGED <<parts, searchResults, uploadStatus, uploadMessage, quotationParts,
                 discountPercentage, fuseRef, effectPending, pendingUploads>>

\* The runs of items that match pattern exactly, ignoring case, on a key
ExactRuns(items, pattern) ==
  {i \in DOMAIN items :
     \/ toLowerCase(items[i].part.itemNo) = toLowerCase(pattern)
     \/ toLowerCase(items[i].part.itemDescription) = toLowerCase(pattern)}

Injective(f) == \A a, b \in DOMAIN f : f[a] = f[b] => a = b

\* fuseRef.current.search(pattern): the lists the engine may return.  The
\* engine is a library: it returns indexed records, each at most once, in
\* its score order; a record one of whose keys equals the pattern ignoring
\* case scores 0 and is returned.  Equal consecutive records score alike and
\* stay together, so a run is returned whole or not at all.
FuseSearch(items, pattern) ==
  LET exact  == ExactRuns(items, pattern)
      orders == UNION {{o \in [1..k -> DOMAIN items] :
                          Injective(o) /\ exact \subseteq Range(o)} :
                       k \in 0..Len(items)}
  IN  {[k \in DOMAIN o |-> items[o[k]]] : o \in orders}

IsExactMatch(result, trimmedQuery) ==
  toLowerCase(result.part.itemNo) = toLowerCase(trimmedQuery)

\* FirstExact taking the last result that is an exact match
LastExact(resultsWithScore, trimmedQuery) ==
  LET hits == {k \in DOMAIN resultsWithScore :
                 IsExactMatch(resultsWithScore[k], trimmedQuery)}
  IN  resultsWithScore[CHOOSE k \in hits : \A j \in hits : k >= j]

\* resultsWithScore.find(...): the first result that is an exact match
FirstExact(resultsWithScore, trimmedQuery) ==
  LET hits == {k \in DOMAIN resultsWithScore :
                 IsExactMatch(resultsWithScore[k], trimmedQuery)}
  IN  resultsWithScore[CHOOSE k \in hits : \A j \in hits : k <= j]

\* SearchOutcome without the exact-match branch
SearchOutcomeAllFuzzy(resultsWithScore, trimmedQuery) == Ref(resultsWithScore)

\* What handleSearch sets the results to, given the engine's list
SearchOutcome(resultsWithScore, trimmedQuery) ==
  IF \E k \in DOMAIN resultsWithScore : IsExactMatch(resultsWithScore[k], trimmedQuery)
    THEN Ref(<<[part |-> FirstExact(resultsWithScore, trimmedQuery).part, n |-> 1]>>)
    ELSE Ref(resultsWithScore)

\* the query used as typed
TrimmedQueryUntrimmed(query) == query

\* searchQuery.trim()
TrimmedQuery(query) == trim(query)

\* last keeps whether the engine was used and the list it returned
handleSearch ==
  LET trimmedQuery == TrimmedQuery(searchQuery)
  IN  /\ IF trimmedQuery = <<>>
           THEN /\ searchResults' = NullRef
                /\ last' = Last("search", <<>>, 0, FALSE, NoFile)
           ELSE IF ~fuseRef.null
             THEN \E resultsWithScore \in FuseSearch(fuseRef.items, trimmedQuery) :
                    /\ searchResults' = SearchOutcome(resultsWithScore, trimmedQuery)
                    /\ last' = Last("search", resultsWithScore, 0, TRUE, NoFile)
             ELSE /\ searchResults' = searchResults
                  /\ last' = Last("search", <<>>, 0, FALSE, NoFile)
      /\ UNCHANGED <<parts, searchQuery, uploadStatus, uploadMessage, quotationParts,
                     discountPercentage, fuseRef, effectPending, pendingUploads>>

handleClear ==
  /\ searchQuery' = <<>>
  /\ searchResults' = NullRef
  /\ last' = Last("clear", <<>>, 0, FALSE, NoFile)
  /\ UNCHANGED <<parts, uploadStatus, uploadMessage, quotationParts,
                 discountPercentage, fuseRef, effectPending, pendingUploads>>

\* quotationParts.some(p => p.itemNo === itemNo)
isPartInQuotation(itemNo) ==
  \E k \in DOMAIN quotationParts : quotationParts[k].itemNo = itemNo

\* AddLine storing the quantity 0
AddLineQuantityZero(prevParts, partToAdd) ==
  Append(prevParts, Assign(partToAdd, "quantity", 0))

\* [...prevParts, { ...partToAdd, quantity: 1 }]
AddLine(prevParts, partToAdd) ==
  Append(prevParts, Assign(partToAdd, "quantity", 1))

\* handleAddToQuotation without the some() test
handleAddToQuotationUnguarded(partToAdd) ==
  /\ quotationParts' = AddLine(quotationParts, partToAdd)
  /\ last' = Last("add", partToAdd.itemNo, 0, isPartInQuotation(partToAdd.itemNo), NoFile)
  /\ UNCHANGED <<parts, searchResults, searchQuery, uploadStatus, uploadMessage,
                 discountPercentage, fuseRef, effectPending, pendingUploads>>

handleAddToQuotation(partToAdd) ==
  /\ quotationParts' =
       IF ~isPartInQuotation(partToAdd.itemNo)
         THEN AddLine(quotationParts, partToAdd)
         ELSE quotationParts
  /\ last' = Last("add", partToAdd.itemNo, 0, isPartInQuotation(partToAdd.itemNo), NoFile)
  /\ UNCHANGED <<parts, searchResults, searchQuery, uploadStatus, uploadMessage,
                 discountPercentage, fuseRef, effectPending, pendingUploads>>

\* One call of handleAddToQuotation made by a handler of the render that
\* showed snapshot, applied to the lines prevParts queued so far: the test
\* reads the snapshot, the updater appends to prevParts
AddFromSnapshot(snapshot, prevParts, partToAdd) ==
  IF ~(\E k \in DOMAIN snapshot : snapshot[k].itemNo = partToAdd.itemNo)
    THEN AddLine(prevParts, partToAdd)
    ELSE prevParts

\* Two calls of handleAddToQuotation made by handlers of the same render,
\* before the update of the first is committed
handleAddToQuotationSameRender(first, second) ==
  /\ quotationParts' =
       AddFromSnapshot(quotationParts,
                       AddFromSnapshot(quotationParts, quotationParts, first), second)
  /\ last' = Last("addTwice", second.itemNo, 0, first.itemNo = second.itemNo, NoFile)
  /\ UNCHANGED <<parts, searchResults, searchQuery, uploadStatus, uploadMessage,
                 discountPercentage, fuseRef, effectPending, pendingUploads>>

\* RemoveLine dropping the first line when no line has the itemNo
RemoveLineOrFirst(prevParts, itemNoToRemove) ==
  IF \E k \in DOMAIN prevParts : prevParts[k].itemNo = itemNoToRemove
    THEN SelectSeq(prevParts, LAMBDA p : p.itemNo # itemNoToRemove)
    ELSE IF prevParts = <<>> THEN <<>> ELSE Tail(prevParts)

\* prevParts.filter(p => p.itemNo !== itemNoToRemove)
RemoveLine(prevParts, itemNoToRemove) ==
  SelectSeq(prevParts, LAMBDA p : p.itemNo # itemNoToRemove)

handleRemoveFromQuotation(itemNoToRemove) ==
  /\ quotationParts' = RemoveLine(quotationParts, itemNoToRemove)
  /\ last' = Last("remove", itemNoToRemove, 0, isPartInQuotation(itemNoToRemove), NoFile)
  /\ UNCHANGED <<parts, searchResults, searchQuery, uploadStatus, uploadMessage,
                 discountPercentage, fuseRef, effectPending, pendingUploads>>

\* UpdateQuantity without Math.max
UpdateQuantityNoClamp(prevParts, itemNoToUpdate, newQuantity) ==
  IF newQuantity = 0
    THEN SelectSeq(prevParts, LAMBDA p : p.itemNo # itemNoToUpdate)
    ELSE [k \in DOMAIN prevParts |->
            IF prevParts[k].itemNo = itemNoToUpdate
              THEN Assign(prevParts[k], "quantity", newQuantity)
              ELSE prevParts[k]]

\* What handleUpdateQuotationQuantity makes of the lines
UpdateQuantity(prevParts, itemNoToUpdate, newQuantity) ==
  LET quantity == Max(0, newQuantity)
  IN  IF quantity = 0
        THEN RemoveLine(prevParts, itemNoToUpdate)
        ELSE [k \in DOMAIN prevParts |->
                IF prevParts[k].itemNo = itemNoToUpdate
                  THEN Assign(prevParts[k], "quantity", quantity)
                  ELSE prevParts[k]]

handleUpdateQuotationQuantity(itemNoToUpdate, newQuantity) ==
  /\ newQuantity <= MaxQuantity
  /\ quotationParts' = UpdateQuantity(quotationParts, itemNoToUpdate, newQuantity)
  /\ last' = Last("setQuantity", itemNoToUpdate, newQuantity,
                  isPartInQuotation(itemNoToUpdate), NoFile)
  /\ UNCHANGED <<parts, searchResults, searchQuery, uploadStatus, uploadMessage,
                 discountPercentage, fuseRef, effectPending, pendingUploads>>

\* handleClearQuotation clearing the search results as well
handleClearQuotationAndResults ==
  /\ quotationParts' = <<>>
  /\ discountPercentage' = 0
  /\ searchResults' = NullRef
  /\ last' = Last("clearQuotation", <<>>, Len(quotationParts), discountPercentage # 0, NoFile)
  /\ UNCHANGED <<parts, searchQuery, uploadStatus, uploadMessage,
                 fuseRef, effectPending, pendingUploads>>

\* last keeps how many lines there were and whether there was a discount
handleClearQuotation ==
  /\ quotationParts' = <<>>
  /\ discountPercentage' = 0
  /\ last' = Last("clearQuotation", <<>>, Len(quotationParts), discountPercentage # 0, NoFile)
  /\ UNCHANGED <<parts, searchResults, searchQuery, uploadStatus, uploadMessage,
                 fuseRef, effectPending, pendingUploads>>

\* the discount input's onChange, which calls setDiscountPercentage(val)
onDiscountChange(text) ==
  /\ discountPercentage' = DiscountValue(text)
  /\ last' = Last("discount", text, 0, FALSE, NoFile)
  /\ UNCHANGED <<parts, searchResults, searchQuery, uploadStatus, uploadMessage,
                 quotationParts, fuseRef, effectPending, pendingUploads>>

(***************************************************************************)
(* Inputs of the handlers                                                  *)
(***************************************************************************)
AppQueries == {<<>>, <<"a","1"," ">>, <<"c","d">>}

Queries == AppQueries \cup {<<" ","\t">>, <<"A","1">>, <<" ","b","2">>, <<"z","z">>, <<"A","B">>}

DiscountTexts == {<<>>, <<"1","0">>, <<"1","5","0">>, <<"-","1","0">>, <<"1","2",".","5">>}

QuantityTexts == {<<>>, <<"0">>, <<"2">>, <<"-","5">>}

KnownItemNos == {<<"A","1">>, <<"B","2">>, <<"a","1">>}

\* The parts whose cards are shown: the search results
ShownParts == {searchResults.items[k].part : k \in DOMAIN searchResults.items}

\* The quantities the "-" button, the "+" button and the quantity input of
\* the line of itemNo pass to onUpdateQuantity
QuantityArgs(itemNo) ==
  {QuantityValue(text) : text \in QuantityTexts}
  \cup UNION {{quotationParts[k].quantity - 1, quotationParts[k].quantity + 1} :
              k \in {j \in DOMAIN quotationParts : quotationParts[j].itemNo = itemNo}}

Upload(files, limit) ==
  \/ handleFileChangeNoFile
  \/ \E file \in files : handleFileChange(file, limit)

Resume == \E i \in DOMAIN pendingUploads : handleFileChangeResume(i)

Search(queries) ==
  \/ \E text \in queries : setSearchQuery(text)
  \/ handleSearch
  \/ handleClear

AddShown == \E partToAdd \in ShownParts : handleAddToQuotation(partToAdd)

Discount(discountTexts) == \E text \in discountTexts : onDiscountChange(text)

Ledger(discountTexts) ==
  \/ AddShown
  \/ \E itemNo \in KnownItemNos : handleRemoveFromQuotation(itemNo)
  \/ \E itemNo \in KnownItemNos : \E newQuantity \in QuantityArgs(itemNo) :
       handleUpdateQuotationQuantity(itemNo, newQuantity)
  \/ handleClearQuotation
  \/ Discount(discountTexts)

\* The application: every handler, uploads overlapping
Next ==
  \/ Upload({FileAB, FileDup, FileNoMrp}, MaxPending)
  \/ Resume
  \/ IndexEffect
  \/ Search({<<"a","1"," ">>})
  \/ AddShown
  \/ handleClearQuotation
  \/ Discount({<<"1","0">>})

Spec == Init /\ [][Next]_vars

\* Uploads of an accepted and a rejected file that overlap, with the
\* quotation in use
NextOverlap ==
  \/ Upload({FileAB, FileNoMrp}, MaxPending)
  \/ Resume
  \/ IndexEffect
  \/ Search({<<"a","1"," ">>})
  \/ AddShown
  \/ Discount({<<"1","0">>})

SpecOverlap == Init /\ [][NextOverlap]_vars

\* Overlapping uploads alone, where the reader of every upload in flight
\* finishes: the promise of parsePartsFile settles and the handler resumes.
NextSettle ==
  \/ Upload({FileAB, FileNoMrp}, MaxPending)
  \/ Resume
  \/ IndexEffect

\* Resume is enabled exactly when an upload is in flight and always changes
\* pendingUploads, so the last conjunct is WF_vars(Resume) written out
SpecSettle ==
  /\ Init /\ [][NextSettle]_vars
  /\ ([]<>(pendingUploads = <<>>) \/ []<><<Resume>>_vars)

\* Uploads of every outcome, one at a time, with the quotation in use
NextUpload ==
  \/ Upload(AppFiles, 1)
  \/ Resume
  \/ IndexEffect
  \/ Search({<<"a","1"," ">>})
  \/ AddShown
  \/ Discount({<<"1","0">>})

SpecUpload == Init /\ [][NextUpload]_vars

\* Searching the catalogs of three files
NextSearch ==
  \/ Upload({FileAB, FileDup, FileNoMrp}, 1)
  \/ Resume
  \/ IndexEffect
  \/ Search(Queries)

SpecSearch == Init /\ [][NextSearch]_vars

\* The quotation: the state once FileAll is uploaded, the index built and a
\* search for "ab" has returned every part
InitLedger ==
  /\ parts = Outcome(FileAll).data
  /\ searchResults = Ref(parts)
  /\ searchQuery = <<"a","b">>
  /\ uploadStatus = "success"
  /\ uploadMessage = Message("parts uploaded successfully.", RowCount(parts), NoError)
  /\ quotationParts = <<>>
  /\ discountPercentage = 0
  /\ fuseRef = Ref(parts)
  /\ effectPending = FALSE
  /\ pendingUploads = <<>>
  /\ last = Last("search", <<>>, 0, FALSE, NoFile)

\* Adds, one and two to a render, and removes
NextBatch ==
  \/ AddShown
  \/ \E first \in ShownParts, second \in ShownParts :
       handleAddToQuotationSameRender(first, second)
  \/ \E itemNo \in KnownItemNos : handleRemoveFromQuotation(itemNo)
  \/ handleClearQuotation

SpecBatch == InitLedger /\ [][NextBatch]_vars

\* The quotation handlers with one discount, and the uploads that reset
\* the quotation
NextFrame ==
  \/ Ledger({<<"1","0">>})
  \/ \E file \in {FileAll, FileNoMrp} : handleFileChange(file, 1)
  \/ Resume
  \/ IndexEffect

SpecFrame == InitLedger /\ [][NextFrame]_vars

\* The quotation handlers with every discount and quantity input, and the
\* uploads that reset the quotation
NextLedger ==
  \/ Ledger(DiscountTexts)
  \/ \E file \in {FileAll, FileNoMrp} : handleFileChange(file, 1)
  \/ Resume
  \/ IndexEffect

SpecLedger == InitLedger /\ [][NextLedger]_vars

\* The state of InitLedger with a line in the quotation and a discount
InitLoaded ==
  /\ parts = Outcome(FileAll).data
  /\ searchResults = Ref(parts)
  /\ searchQuery = <<"a","b">>
  /\ uploadStatus = "success"
  /\ uploadMessage = Message("parts uploaded successfully.", RowCount(parts), NoError)
  /\ quotationParts = AddLine(<<>>, parts[1].part)
  /\ discountPercentage = DiscountValue(<<"1","0">>)
  /\ fuseRef = Ref(parts)
  /\ effectPending = FALSE
  /\ pendingUploads = <<>>
  /\ last = Last("discount", <<"1","0">>, 0, FALSE, NoFile)

\* One upload of any file, into the empty application or the loaded one
NextIngest ==
  \/ /\ last.op \in {"init", "discount"}
     /\ \E file \in IngestFiles : handleFileChange(file, 1)
  \/ Resume
  \/ IndexEffect

SpecIngest == (Init \/ InitLoaded) /\ [][NextIngest]_vars

(***************************************************************************)
(* Properties                                                              *)
(***************************************************************************)
\* The error each file of AppFiles is rejected with ("" when accepted)
ExpectedKind(file) ==
  CASE file = FileTxt        -> "UnsupportedFormat"
    [] file = FileHeaderOnly -> "EmptyOrHeaderOnly"
    [] file = FileNoMrp      -> "MissingColumns"
    [] file = FileCorrupt    -> "MalformedFile"
    [] file = FileTooBig     -> "SizeExceeded"
    [] OTHER                 -> ""

\* C1: right after an upload completes, accepted or rejected, the quotation
\* is empty and the discount is 0.
C1_ResumeResetsQuotation ==
  last.op = "resume" => quotationParts = <<>> /\ discountPercentage = 0

\* an accepted upload completed while the quotation had lines and a catalog
\* was loaded
C1_Witness ==
  /\ last.op = "resume" /\ last.hit /\ last.n > 0 /\ last.rows > 0
  /\ quotationParts = <<>> /\ discountPercentage = 0

\* C2: a file that is rejected, for each of the five reasons, sets the error
\* status with that reason, and right after a rejected upload the catalog
\* and the quotation are empty.
C2_FailureClearsCatalog ==
  last.op = "resume" =>
    /\ ExpectedKind(last.file) # "" =>
         uploadStatus = "error" /\ uploadMessage.error.kind = ExpectedKind(last.file)
    /\ uploadStatus = "error" => parts = <<>> /\ quotationParts = <<>>

\* the oversized file was rejected while a catalog was loaded and the
\* quotation had lines
C2_Witness ==
  /\ last.op = "resume" /\ last.file = FileTooBig /\ last.rows > 0 /\ last.n > 0
  /\ uploadStatus = "error" /\ parts = <<>>

\* The index was built over the current catalog
IndexCurrent == ~fuseRef.null /\ fuseRef.items = parts

\* The catalog runs whose itemNo is the trimmed query, ignoring case.  The
\* queries typed are trimmed here by their listed white space.
QueryHits ==
  {k \in DOMAIN parts :
     toLowerCase(parts[k].part.itemNo)
       = toLowerCase(SelectSeq(searchQuery, LAMBDA c : c \notin WhiteSpace))}

\* C3 as claimed: with the index built over the catalog, a query equal to
\* the itemNo of a catalog record, ignoring case, yields exactly that record
\* alone.
C3_Original ==
  last.op = "search" /\ IndexCurrent =>
    \A k \in QueryHits : searchResults = Ref(<<[part |-> parts[k].part, n |-> 1]>>)

\* C3: with the index built over the catalog, a query equal to the itemNo of
\* a catalog record, ignoring case, yields a single record, which is a
\* catalog record with that itemNo ignoring case; it is that very record
\* when no other run of the catalog has the itemNo.
C3_ExactMatchAlone ==
  last.op = "search" /\ IndexCurrent /\ QueryHits # {} =>
    /\ ~searchResults.null
    /\ Len(searchResults.items) = 1
    /\ searchResults.items[1].n = 1
    /\ \E k \in QueryHits : searchResults.items[1].part = parts[k].part
    /\ \A k \in QueryHits :
         QueryHits = {k} => searchResults.items[1].part = parts[k].part

\* a search for "a1 " in the catalog A1, B2 yielded A1 alone
C3_Witness ==
  /\ last.op = "search" /\ IndexCurrent /\ Len(parts) = 2
  /\ searchQuery = <<"a","1"," ">>
  /\ Cardinality(QueryHits) = 1
  /\ searchResults = Ref(<<[part |-> parts[1].part, n |-> 1]>>)

BlankQueries == {<<>>, <<" ","\t">>}

\* C8: a search with an empty or white-space-only query sets the results to
\* null, not to an empty list, with or without a catalog or an index.
C8_BlankQueryIsNull ==
  last.op = "search" /\ searchQuery \in BlankQueries =>
    searchResults.null /\ searchResults # Ref(<<>>)

\* a white-space-only search with a catalog loaded and its index built
C8_Witness ==
  /\ last.op = "search" /\ searchQuery = <<" ","\t">>
  /\ IndexCurrent /\ parts # <<>>
  /\ searchResults.null

LinesOf(lines, itemNo) == {k \in DOMAIN lines : lines[k].itemNo = itemNo}

\* C4: adding a part whose itemNo the quotation holds changes nothing, and
\* after any add the quotation has exactly one line with that itemNo.
C4_AddPresentIsNoOp ==
  /\ [](last.op = "add" => Cardinality(LinesOf(quotationParts, last.item)) = 1)
  /\ [][last'.op = "add" /\ LinesOf(quotationParts, last'.item) # {}
          => quotationParts' = quotationParts]_vars

\* a part was added again while its line had a quantity above 1, and the
\* line still has it
C4_Witness ==
  /\ last.op = "add" /\ last.hit
  /\ \E k \in DOMAIN quotationParts :
       quotationParts[k].itemNo = last.item /\ quotationParts[k].quantity > 1

\* C5: setQuantity(itemNo, n) with n <= 0 leaves the lines of the other
\* itemNos, as remove(itemNo) does; with n >= 1 it sets the quantity of the
\* line of itemNo to n and changes nothing else.
C5_SetQuantity ==
  [][last'.op = "setQuantity" =>
       LET itemNo == last'.item
           n      == last'.n
       IN  IF n <= 0
             THEN /\ LinesOf(quotationParts', itemNo) = {}
                  /\ quotationParts' =
                       [k \in 1..Len(quotationParts') |->
                          quotationParts[
                            CHOOSE j \in DOMAIN quotationParts :
                              /\ quotationParts[j].itemNo # itemNo
                              /\ Cardinality({i \in 1..j :
                                   quotationParts[i].itemNo # itemNo}) = k]]
                  /\ Len(quotationParts')
                       = Len(quotationParts) - Cardinality(LinesOf(quotationParts, itemNo))
             ELSE /\ Len(quotationParts') = Len(quotationParts)
                  /\ \A k \in DOMAIN quotationParts :
                       quotationParts'[k] =
                         IF quotationParts[k].itemNo = itemNo
                           THEN [quotationParts[k] EXCEPT !.quantity = n]
                           ELSE quotationParts[k]]_vars

\* a negative quantity was set for a line of the quotation, which is gone
C5_Witness ==
  /\ last.op = "setQuantity" /\ last.n < 0 /\ last.hit
  /\ LinesOf(quotationParts, last.item) = {}
  /\ quotationParts # <<>>

\* What the discount input's texts stand for, in hundredths of a percent
ExpectedDiscount(text) ==
  CASE text = <<>>       -> 0
    [] text = <<"1","0">>     -> 1000
    [] text = <<"1","5","0">>    -> 10000
    [] text = <<"-","1","0">>    -> 0
    [] text = <<"1","2",".","5">>   -> 1250

\* C6: the discount is always between 0 and 100 percent; a value typed above
\* 100 is stored as 100, one below 0 as 0, any other as typed.
C6_DiscountInRange ==
  /\ discountPercentage >= 0 /\ discountPercentage <= 10000
  /\ last.op = "discount" => discountPercentage = ExpectedDiscount(last.item)

\* 150 was typed and 100 percent is stored
C6_Witness ==
  last.op = "discount" /\ last.item = <<"1","5","0">> /\ discountPercentage = 10000

\* What the mrp texts of the catalogs are worth, in hundredths
ExpectedMrp(mrp) ==
  CASE mrp = <<"₹","1","0","0",".","0","0">> -> 10000
    [] mrp = <<"₹","5","0">>     -> 5000
    [] mrp = <<"n","/","a">>     -> 0
    [] mrp = <<>>        -> 0

RECURSIVE ExpectedSubtotal(_)
ExpectedSubtotal(lines) ==
  IF lines = <<>> THEN 0
  ELSE ExpectedMrp(Head(lines).mrp) * Head(lines).quantity + ExpectedSubtotal(Tail(lines))

\* The quotation of mrp 100.00 twice and mrp 50 once, at 10 percent
ExampleQuotation ==
  /\ Len(quotationParts) = 2
  /\ quotationParts[1].mrp = <<"₹","1","0","0",".","0","0">> /\ quotationParts[1].quantity = 2
  /\ quotationParts[2].mrp = <<"₹","5","0">> /\ quotationParts[2].quantity = 1
  /\ discountPercentage = 1000

\* C7: the subtotal is the sum of mrp times quantity over the lines, an mrp
\* that is no number counting 0; the discount amount is subtotal times
\* discount / 100 and the total is subtotal less the discount amount (both
\* in millionths; the subtotal in hundredths, the discount in hundredths of
\* a percent); the example gives 250, 25 and 225.
C7_Totals ==
  LET t == Totals(quotationParts, discountPercentage)
  IN  /\ t.subtotal = ExpectedSubtotal(quotationParts)
      /\ t.discountAmount = t.subtotal * discountPercentage
      /\ t.total = t.subtotal * 10000 - t.discountAmount
      /\ ExampleQuotation =>
           t = [subtotal |-> 25000, discountAmount |-> 25000000, total |-> 225000000]

\* the example quotation, with its totals
C7_Witness ==
  /\ ExampleQuotation
  /\ Totals(quotationParts, discountPercentage).total = 225000000

\* The names with one of the three supported extensions
SupportedNames == Names \cup {<<"e",".","X","l","s","X">>, <<"c",".","x","l","s","x">>}

IsSpreadsheet(file) == file.name \in {<<"a",".","x","l","s","x">>, <<"c",".","x","l","s","x">>, <<"e",".","X","l","s","X">>}

\* The required fields no header column of the file is meant to supply
Lacking(file) == {f \in Range(REQUIRED_HEADERS) : f \notin Range(file.cols)}

DataRows(file) == RowCount(file.body)

MissingColumnsListed(file) ==
  /\ uploadStatus = "error"
  /\ uploadMessage.error.kind = "MissingColumns"
  /\ Range(uploadMessage.error.missing) = Lacking(file)
  /\ Len(uploadMessage.error.missing) = Cardinality(Lacking(file))
  /\ parts = <<>>

\* C9 as stated: every file with a supported extension whose header row
\* lacks a required field is rejected with MissingColumns.
C9_Original ==
  last.op = "resume" /\ last.file.name \in SupportedNames /\ last.file.hasHeader
    /\ Lacking(last.file) # {}
  => MissingColumnsListed(last.file)

\* C9: a file with a supported extension that its reader reads without an
\* error (and, for a spreadsheet, that has a data row) and whose header row
\* lacks a required field is rejected with MissingColumns; the error lists
\* the lacking fields, each once and no other, and the catalog is empty.
C9_MissingColumns ==
  last.op = "resume" /\ last.file.name \in SupportedNames /\ last.file.hasHeader
    /\ Lacking(last.file) # {}
    /\ last.file.io = "ok" /\ last.file.errors = 0
    /\ (IsSpreadsheet(last.file) => DataRows(last.file) >= 1)
  => MissingColumnsListed(last.file)

\* a delimited-text file lacking three of the fields, its headers spelt with
\* capitals and white space, was rejected while a catalog and a quotation
\* were held
C9_Witness ==
  /\ last.op = "resume" /\ last.rows > 0 /\ last.n > 0
  /\ ~IsSpreadsheet(last.file) /\ last.file.style = 3
  /\ Lacking(last.file) = {"itemGroup", "model", "mrp"}
  /\ uploadMessage.error.missing = <<"itemGroup", "model", "mrp">>
  /\ parts = <<>>

\* What String(value) is for the cell a row template holds for a field
ExpectedText(tpl, field) ==
  CASE field = "itemNo" ->
         (CASE tpl = 1 -> <<"A","1">> [] tpl = 2 -> <<"B","2">> [] tpl = 3 -> <<"a","1">>)
    [] field = "itemDescription" -> (IF tpl = 2 THEN <<"a","b","c">> ELSE <<"a","b">>)
    [] field = "itemGroup"  -> <<"g">>
    [] field = "model"      -> (IF tpl = 3 THEN <<>> ELSE <<"3","D","X">>)
    [] field = "bhlHlnFlag" -> <<>>
    [] field = "hsnTax"     -> <<"1","8">>
    [] field = "saleRate"   -> (IF tpl = 1 THEN <<"9","0">> ELSE <<"4","5",".","5">>)
    [] field = "mrp" ->
         (CASE tpl = 1 -> <<"₹","1","0","0",".","0","0">> [] tpl = 2 -> <<"₹","5","0">> [] tpl = 3 -> <<"n","/","a">>)

\* The record of a data row: each field from the last column that supplies
\* it, the empty text where the row ends before that column
ExpectedPart(run, cols) ==
  [f \in Range(REQUIRED_HEADERS) |->
     LET at == CHOOSE i \in DOMAIN cols :
                 cols[i] = f /\ \A j \in DOMAIN cols : cols[j] = f => j <= i
     IN  IF at <= Len(cols) - run.cut THEN ExpectedText(run.tpl, f) ELSE <<>>]

ExpectedCatalog(file) ==
  [k \in DOMAIN file.body |->
     [part |-> ExpectedPart(file.body[k], file.cols), n |-> file.body[k].n]]

Accepted(file) ==
  /\ uploadStatus = "success"
  /\ parts = ExpectedCatalog(file)
  /\ RowCount(parts) = DataRows(file)

\* The files C10 is about, less those the other errors of ingestion are
\* for: the file is readable, a spreadsheet has a data row, and there are
\* no more rows than the limit
FullFile(file) ==
  /\ file.name \in SupportedNames /\ file.hasHeader /\ Lacking(file) = {}
  /\ file.io = "ok"
  /\ IsSpreadsheet(file) => DataRows(file) >= 1
  /\ DataRows(file) <= MAX_PARTS_LIMIT

\* C10: every file with a supported extension whose header row supplies the
\* eight required fields, in any accepted spelling and order and with any
\* unknown columns, is accepted, and the catalog has one record per data
\* row, in row order, a missing or blank cell giving the empty text.
C10_Original ==
  last.op = "resume" /\ FullFile(last.file) => Accepted(last.file)

\* The same for the files whose reader reports no error
C10_AcceptedWithoutReaderError ==
  last.op = "resume" /\ FullFile(last.file) /\ last.file.errors = 0
    => Accepted(last.file)

\* a delimited-text file with the eight columns and a row that ends early
\* was rejected
C10_Witness ==
  /\ last.op = "resume" /\ FullFile(last.file)
  /\ ~IsSpreadsheet(last.file) /\ \E k \in DOMAIN last.file.body : last.file.body[k].cut > 0
  /\ uploadStatus = "error" /\ uploadMessage.error.kind = "MalformedFile"
  /\ parts = <<>>

\* a spreadsheet with unknown columns, the columns in reverse order, and
\* rows that end early was accepted
C10_AcceptedWitness ==
  /\ last.op = "resume" /\ FullFile(last.file) /\ Accepted(last.file)
  /\ last.file.cols = <<"extra">> \o Reverse(REQUIRED_HEADERS) \o <<"near">>
  /\ last.file.body = ShortBody
  /\ parts[2].part.itemNo = <<>> /\ parts[2].part.mrp = <<"₹","1","0","0",".","0","0">>

\* C11: an ingestion whose parse yields n records is accepted, the catalog
\* being the n records, exactly if n <= 65,000; otherwise it fails with
\* SizeExceeded, which reports n and the limit; a file whose parse fails is
\* never rejected for its size.
C11_SizeLimit ==
  last.op = "resume" =>
    LET parsed == parsePartsFile(FileOf(last.file))
        n      == RowCount(parsed.data)
    IN  IF ~parsed.ok
          THEN uploadStatus = "error" /\ uploadMessage.error = parsed.error
               /\ uploadMessage.error.kind # "SizeExceeded"
        ELSE IF n <= 65000
          THEN uploadStatus = "success" /\ parts = parsed.data /\ RowCount(parts) = n
          ELSE /\ uploadStatus = "error"
               /\ uploadMessage.error.kind = "SizeExceeded"
               /\ uploadMessage.error.count = n
               /\ uploadMessage.error.limit = 65000
               /\ parts = <<>>

\* a file of exactly 65,000 data rows was accepted
C11_Witness ==
  /\ last.op = "resume" /\ DataRows(last.file) = 65000
  /\ uploadStatus = "success" /\ RowCount(parts) = 65000

\* The rows of the sheet of a file: its header row and its data rows
SheetRows(file) == (IF file.hasHeader THEN 1 ELSE 0) + DataRows(file)

\* C12: a spreadsheet with fewer than two rows (none, or a header row only)
\* is rejected with EmptyOrHeaderOnly, whether or not its header row has
\* the required columns, and the catalog is empty.
C12_EmptyOrHeaderOnly ==
  last.op = "resume" /\ IsSpreadsheet(last.file) /\ SheetRows(last.file) < 2
  => /\ uploadStatus = "error"
     /\ uploadMessage.error.kind = "EmptyOrHeaderOnly"
     /\ uploadMessage.error.missing = <<>>
     /\ parts = <<>>

\* a spreadsheet with a header row only, which lacks required columns, was
\* rejected with EmptyOrHeaderOnly while a catalog was held
C12_Witness ==
  /\ last.op = "resume" /\ IsSpreadsheet(last.file) /\ last.rows > 0
  /\ last.file.hasHeader /\ DataRows(last.file) = 0
  /\ Cardinality(Lacking(last.file)) = 3
  /\ uploadMessage.error.kind = "EmptyOrHeaderOnly"
  /\ parts = <<>>

\* C13: once the index effect of the last catalog change has run, the index
\* is built over exactly the records of the catalog (and there is none, or
\* an empty one, when the catalog is empty).
C13_Original ==
  ~effectPending => fuseRef.items = parts /\ (fuseRef.null => parts = <<>>)

\* The same for the catalogs that are not empty
C13_IndexOfNonEmptyCatalog ==
  ~effectPending /\ parts # <<>> => fuseRef = Ref(parts)

\* the catalog was emptied by a rejected upload, the index effect has run,
\* and the index is still the one built over the catalog before
C13_Witness ==
  /\ ~effectPending /\ last.op = "effect"
  /\ uploadStatus = "error" /\ parts = <<>>
  /\ ~fuseRef.null /\ fuseRef.items # <<>>

\* C14: no ingestion completes after an ingestion that was started later
\* than it has completed, so that it would overwrite the catalog, the
\* quotation, the discount and the status that one produced.
C14_Original == last.op = "resume" => ~last.late

\* two uploads were in flight, the one started last completed first and was
\* accepted, and the completion of the other has replaced its catalog by
\* an error
C14_Witness ==
  /\ last.op = "resume" /\ last.late /\ last.rows > 0
  /\ last.file = FileNoMrp
  /\ uploadStatus = "error" /\ parts = <<>>

\* The record sequences of the files that are accepted
WholeCatalogs ==
  {ExpectedCatalog(file) :
     file \in {f \in IngestFiles \cup {FileAll} : FullFile(f) /\ f.errors = 0}}

\* C15: in every state, also while an ingestion is pending, the catalog is
\* empty or the whole record sequence of one accepted file.
C15_CatalogIsWhole == parts = <<>> \/ parts \in WholeCatalogs

\* an upload is pending and the catalog is still the whole catalog of the
\* file loaded before
C15_Witness ==
  /\ pendingUploads # <<>> /\ uploadStatus = "loading"
  /\ FullFile(pendingUploads[1].file) /\ DataRows(pendingUploads[1].file) > 0
  /\ parts = ExpectedCatalog(FileAll)

\* C16: clearing the quotation empties it and sets the discount to 0, and
\* leaves the catalog, the index, the search query and the search results
\* as they were.
C16_ClearFrame ==
  [][last'.op = "clearQuotation" =>
       /\ quotationParts' = <<>> /\ discountPercentage' = 0
       /\ parts' = parts /\ fuseRef' = fuseRef
       /\ searchQuery' = searchQuery /\ searchResults' = searchResults]_vars

\* a quotation of two lines with a discount was cleared, and the catalog,
\* the index and the results are there
C16_Witness ==
  /\ last.op = "clearQuotation" /\ last.n = 2 /\ last.hit
  /\ quotationParts = <<>> /\ discountPercentage = 0
  /\ parts # <<>> /\ fuseRef = Ref(parts) /\ searchResults = Ref(parts)
  /\ searchQuery = <<"a","b">>

RECURSIVE OtherLines(_, _)
\* The lines of the other itemNos, in their order
OtherLines(lines, itemNo) ==
  IF lines = <<>> THEN <<>>
  ELSE (IF Head(lines).itemNo = itemNo THEN <<>> ELSE <<Head(lines)>>)
       \o OtherLines(Tail(lines), itemNo)

\* C17: remove(itemNo) deletes the line of itemNo if there is one and
\* changes nothing if there is none; the other lines keep their part, their
\* quantity and their order, and the discount and the catalog are
\* unchanged.  setQuantity(itemNo, n) with n >= 1 changes no other line, no
\* line if there is none of itemNo, and neither the discount nor the
\* catalog.
C17_RemoveFrame ==
  /\ [][last'.op = "remove" =>
          /\ quotationParts' = OtherLines(quotationParts, last'.item)
          /\ LinesOf(quotationParts', last'.item) = {}
          /\ LinesOf(quotationParts, last'.item) = {} => quotationParts' = quotationParts
          /\ LinesOf(quotationParts, last'.item) # {}
               => Len(quotationParts') = Len(quotationParts) - 1
          /\ discountPercentage' = discountPercentage /\ parts' = parts]_vars
  /\ [][last'.op = "setQuantity" /\ last'.n >= 1 =>
          /\ Len(quotationParts') = Len(quotationParts)
          /\ \A k \in DOMAIN quotationParts :
               quotationParts[k].itemNo # last'.item => quotationParts'[k] = quotationParts[k]
          /\ OtherLines(quotationParts', last'.item) = OtherLines(quotationParts, last'.item)
          /\ LinesOf(quotationParts, last'.item) = {} => quotationParts' = quotationParts
          /\ discountPercentage' = discountPercentage /\ parts' = parts]_vars

\* the middle one of three lines was removed; the other two are there in
\* their order, one with its quantity of 2, and the discount is kept
C17_Witness ==
  /\ last.op = "remove" /\ last.hit /\ last.item = <<"B","2">>
  /\ Len(quotationParts) = 2
  /\ quotationParts[1].itemNo = <<"a","1">> /\ quotationParts[1].quantity = 2
  /\ quotationParts[2].itemNo = <<"A","1">>
  /\ discountPercentage = 1000 /\ parts # <<>>

\* C18 as stated: from the step that starts an ingestion, while the status
\* is loading, the catalog, the quotation and the discount of before are no
\* longer held.
C18_Original ==
  uploadStatus = "loading" =>
    parts = <<>> /\ quotationParts = <<>> /\ discountPercentage = 0

\* C18: the step that starts an ingestion sets the status to loading and
\* clears the search results and the query, and leaves the catalog, the
\* quotation and the discount as they are; the catalog is changed only by
\* the completion of an ingestion.
C18_StartKeepsCatalog ==
  /\ [][last'.op = "upload" =>
          /\ uploadStatus' = "loading" /\ searchResults' = NullRef /\ searchQuery' = <<>>
          /\ parts' = parts /\ quotationParts' = quotationParts
          /\ discountPercentage' = discountPercentage]_vars
  /\ [][parts' # parts => last'.op = "resume"]_vars

\* an upload has just been started and the catalog, the quotation and the
\* discount of before are held
C18_Witness ==
  /\ last.op = "upload" /\ uploadStatus = "loading" /\ pendingUploads # <<>>
  /\ parts # <<>> /\ quotationParts # <<>> /\ discountPercentage = 1000
  /\ searchResults = NullRef /\ searchQuery = <<>>

\* The candidates of a list whose itemNo is the query without its white
\* space, ignoring case
ExactIn(list, query) ==
  {k \in DOMAIN list :
     toLowerCase(list[k].part.itemNo)
       = toLowerCase(SelectSeq(query, LAMBDA c : c \notin WhiteSpace))}

\* C19: when the engine has returned a list for a query that is not blank,
\* the results are the first candidate of the list whose itemNo is the
\* query ignoring case, alone, if there is one, and otherwise the whole
\* list in the engine's order, which is the empty list and not null when
\* there is no candidate.
C19_ResultsFromCandidates ==
  last.op = "search" /\ last.hit =>
    LET list == last.item
        hits == ExactIn(list, searchQuery)
    IN  /\ ~searchResults.null
        /\ IF hits # {}
             THEN /\ Len(searchResults.items) = 1
                  /\ searchResults.items[1].n = 1
                  /\ \E k \in hits :
                       /\ \A j \in hits : k <= j
                       /\ searchResults.items[1].part = list[k].part
             ELSE searchResults.items = list

\* the engine returned two candidates whose itemNo is the query ignoring
\* case, and the result is the first of them alone
C19_Witness ==
  /\ last.op = "search" /\ last.hit
  /\ Len(last.item) = 2 /\ ExactIn(last.item, searchQuery) = {1, 2}
  /\ last.item[1].part # last.item[2].part
  /\ searchResults = Ref(<<[part |-> last.item[1].part, n |-> 1]>>)

\* the engine returned no candidate and the result is the empty list
C19_EmptyListWitness ==
  /\ last.op = "search" /\ last.hit /\ last.item = <<>>
  /\ parts # <<>> /\ searchResults = Ref(<<>>)

\* C20: in every state every line of the quotation has an integer quantity
\* of at least 1, and a step that changes the quantity of a line that stays
\* is a setQuantity.
C20_QuantityAtLeastOne ==
  /\ [](\A k \in DOMAIN quotationParts :
          quotationParts[k].quantity \in Nat /\ quotationParts[k].quantity >= 1)
  /\ [][(\E k \in DOMAIN quotationParts, j \in DOMAIN quotationParts' :
           /\ quotationParts[k].itemNo = quotationParts'[j].itemNo
           /\ quotationParts[k].quantity # quotationParts'[j].quantity)
        => last'.op = "setQuantity"]_vars
  /\ [][last'.op = "add" /\ ~last'.hit =>
          quotationParts'[Len(quotationParts')].quantity = 1]_vars

\* the quantity 0 was set for a line of quantity 1, by its "-" button: the
\* line is gone and the lines that are left have quantities of 1 and more
C20_Witness ==
  /\ last.op = "setQuantity" /\ last.n = 0 /\ last.hit
  /\ LinesOf(quotationParts, last.item) = {}
  /\ Len(quotationParts) = 2
  /\ \E k \in DOMAIN quotationParts : quotationParts[k].quantity = MaxQuantity

\* C21: in every state no two lines of the quotation have the same itemNo,
\* also after two adds of a part made by handlers of the same render.
C21_Original ==
  \A j \in DOMAIN quotationParts, k \in DOMAIN quotationParts :
    quotationParts[j].itemNo = quotationParts[k].itemNo => j = k

\* a part that was not in the quotation was added twice by handlers of the
\* same render, and the quotation has two lines of its itemNo
C21_Witness ==
  /\ last.op = "addTwice" /\ last.hit
  /\ Cardinality(LinesOf(quotationParts, last.item)) = 2

\* The positions of the dots of a name
Dots(name) == {i \in DOMAIN name : name[i] = "."}

\* The text after the last dot of a name, in lower case
AfterLastDot(name) ==
  LET at == CHOOSE i \in Dots(name) : \A j \in Dots(name) : j <= i
  IN  toLowerCase(SubSeq(name, at + 1, Len(name)))

\* What an upload ends with when reader has read the file
EndsAs(result) ==
  IF ~result.ok
    THEN uploadStatus = "error" /\ uploadMessage.error = result.error /\ parts = <<>>
  ELSE IF RowCount(result.data) <= MAX_PARTS_LIMIT
    THEN uploadStatus = "success" /\ parts = result.data
    ELSE uploadStatus = "error" /\ uploadMessage.error.kind = "SizeExceeded"

DispatchedBy(file, extension) ==
  IF extension = <<"x","l","s","x">> THEN EndsAs(parseExcel(FileOf(file)))
  ELSE IF extension \in {<<"c","s","v">>, <<"t","s","v">>} THEN EndsAs(parseCsvTsv(FileOf(file)))
  ELSE /\ uploadStatus = "error"
       /\ uploadMessage.error.kind = "UnsupportedFormat"
       /\ parts = <<>>

\* C22: a file whose extension, the text after the last dot of its name
\* ignoring case, is not xlsx, csv or tsv (a name without a dot has none) is
\* rejected with UnsupportedFormat whatever a reader would make of it; xlsx
\* ends as the spreadsheet reader decides and csv and tsv as the
\* delimited-text reader decides.
C22_Original ==
  last.op = "resume" =>
    DispatchedBy(last.file,
                 IF Dots(last.file.name) = {} THEN <<>> ELSE AfterLastDot(last.file.name))

\* The same with the whole name taken for the extension of a name without
\* a dot
C22_DispatchByLastDotOrName ==
  last.op = "resume" =>
    DispatchedBy(last.file,
                 IF Dots(last.file.name) = {} THEN toLowerCase(last.file.name)
                 ELSE AfterLastDot(last.file.name))

\* a file named csv, without a dot, was read by the delimited-text reader
\* and accepted
C22_Witness ==
  /\ last.op = "resume" /\ last.file.name = <<"c","s","v">> /\ last.file.body = <<>>
  /\ uploadStatus = "success" /\ parts = <<>>

\* The part of a quotation line: the line without its quantity
PartOfLine(line) == [f \in DOMAIN line \ {"quantity"} |-> line[f]]

\* part is a record of the current catalog
InCatalog(part) == \E j \in DOMAIN parts : parts[j].part = part

\* C23: the part of every line of the quotation is a record of the current
\* catalog, also when searches and adds happen while an upload is in flight or
\* from results found before it completed.
C23_Original ==
  \A k \in DOMAIN quotationParts : InCatalog(PartOfLine(quotationParts[k]))

\* a part was added from the results shown over a catalog that was loaded
\* successfully, no upload in flight, and the catalog does not hold it
C23_Witness ==
  /\ last.op = "add" /\ ~last.hit
  /\ uploadStatus = "success" /\ parts # <<>> /\ pendingUploads = <<>>
  /\ \E k \in DOMAIN quotationParts :
       /\ quotationParts[k].itemNo = last.item
       /\ ~InCatalog(PartOfLine(quotationParts[k]))

\* C24: the search results are null or hold only records of the current
\* catalog: once an upload has completed no result from the catalog before it
\* remains, even when the search ran while the upload was in flight.
C24_Original ==
  searchResults.null \/
    \A k \in DOMAIN searchResults.items : InCatalog(searchResults.items[k].part)

\* an upload has completed with a new catalog and the results on show hold
\* a record that is not in it
C24_Witness ==
  /\ last.op = "resume" /\ last.hit /\ parts # <<>> /\ pendingUploads = <<>>
  /\ ~searchResults.null
  /\ \E k \in DOMAIN searchResults.items : ~InCatalog(searchResults.items[k].part)

\* The status is loading exactly while an upload is in flight
LoadingWhilePending == (uploadStatus = "loading") <=> (pendingUploads # <<>>)

\* The catalog is empty under status error and, under status success, is the
\* record set the message counts, the one of the upload that completed
CatalogOfStatus ==
  /\ uploadStatus = "error" => parts = <<>>
  /\ uploadStatus = "success" =>
       /\ uploadMessage.count = RowCount(parts)
       /\ last.op = "resume" => last.hit /\ parts = Outcome(last.file).data

\* C25: the status is loading exactly while some upload is in flight; under
\* status error the catalog is empty and under status success it is the
\* record set of the upload that set the status.
C25_Original == LoadingWhilePending /\ CatalogOfStatus

\* The same with loading only while an upload is in flight
C25_LoadingOnlyWhilePending ==
  /\ uploadStatus = "loading" => pendingUploads # <<>>
  /\ CatalogOfStatus

\* Every upload in flight whose reader finishes moves the status to success
\* or error, and the status does not stay loading
C25_Completes ==
  /\ [](pendingUploads # <<>> =>
          <>(last.op = "resume" /\ uploadStatus \in {"success", "error"}))
  /\ ~<>[](uploadStatus = "loading")

\* an upload has completed and set its status while another one, started
\* during it, is still in flight
C25_Witness ==
  /\ last.op = "resume" /\ pendingUploads # <<>>
  /\ uploadStatus \in {"success", "error"}

====
